---- MODULE Spec2Model ----
(***************************************************************************)
(* The resource-identifier codec of go-sourcegraph: RepoSpec, RepoRevSpec  *)
(* and DeltaSpec, their encoders (PathComponent, RevPathComponent,         *)
(* RouteVars) and decoders (ParseRepoSpec and the Unmarshal functions).    *)
(*                                                                         *)
(* A Go string is a sequence of bytes and is modelled as a sequence of     *)
(* byte values (0..255): "R$" is <<82, 36>>.  A call that may panic gives  *)
(* [panic, val] (panic = "" when it returned); a call that returns         *)
(* (T, error) gives [val, err, panic] (err = "" for nil, panic = "" when   *)
(* it returned).  panic and err hold the fixed text of the message; text   *)
(* interpolated into it is left out.                                       *)
(***************************************************************************)
EXTENDS Integers, Sequences, FiniteSets, TLC

VARIABLES
  pc,         \* "idle", "encoded" (an encoder was called), "decoded" (a decoder was
              \* called), "called" (methods of a DefDelta were called)
  fn,         \* the encoder that was called ("" when the decoder's input is a
              \* request's), or "DefDelta"
  arg,        \* the spec it was called on
  panic,      \* the message the last call panicked with, "" when it returned
  component,  \* the path component the encoder returned or the request holds
  routeMap,   \* the route-variable map the encoder returned or the request holds
  dfn,        \* the decoder that was called
  res         \* what it gave: [val, err, panic]; of a DefDelta, val is the map
              \* from the methods called to what they returned

\* concurrent callers of the codec
VARIABLES
  threads,    \* of each thread: the function it runs (fn), its argument (arg),
              \* its position in it (pc), the address of its local map m (m, 0
              \* before the map is made) and what the call gave (res)
  heap        \* the maps allocated so far, by address

vars == <<pc, fn, arg, panic, component, routeMap, dfn, res, threads, heap>>

(***************************************************************************)
(* Bounds of the model.                                                    *)
(***************************************************************************)
MaxRID == 2
MaxParts == 2
NumThreads == 2

(***************************************************************************)
(* String literals of the source.                                          *)
(***************************************************************************)
\* "R$"
RIDPrefix == <<82, 36>>
\* "sourcegraph.com/"
SourcegraphCom == <<115, 111, 117, 114, 99, 101, 103, 114, 97, 112, 104, 46, 99, 111, 109, 47>>
\* "sourcegraph/"
SourcegraphSlash == <<115, 111, 117, 114, 99, 101, 103, 114, 97, 112, 104, 47>>
\* "==="
repoRevSpecCommitSep == <<61, 61, 61>>
\* ":"
Colon == <<58>>

(***************************************************************************)
(* Go's string and conversion primitives.                                  *)
(***************************************************************************)
Returned(v) == [panic |-> "", val |-> v]
Panicked(msg) == [panic |-> msg, val |-> <<>>]
Value(v) == [val |-> v, err |-> "", panic |-> ""]
Failed(v, e) == [val |-> v, err |-> e, panic |-> ""]
Crashed(msg) == [val |-> <<>>, err |-> "", panic |-> msg]

\* strings.HasPrefix(s, prefix)
HasPrefix(s, prefix) ==
  Len(s) >= Len(prefix) /\ SubSeq(s, 1, Len(prefix)) = prefix

\* strings.Index(s, sep): the 0-based index of the first occurrence, or -1
Index(s, sep) ==
  LET at == {i \in 0..(Len(s) - Len(sep)) : SubSeq(s, i + 1, i + Len(sep)) = sep}
  IN IF at = {} THEN -1 ELSE CHOOSE i \in at : \A j \in at : i <= j

\* s[n:], which panics when n > len(s)
SliceFrom(s, n) ==
  IF n > Len(s) THEN Panicked("slice bounds out of range")
  ELSE Returned(SubSeq(s, n + 1, Len(s)))

\* s[:n], which panics when n > len(s) or n < 0
SliceTo(s, n) ==
  IF n < 0 \/ n > Len(s) THEN Panicked("slice bounds out of range")
  ELSE Returned(SubSeq(s, 1, n))

IsDigit(c) == c >= 48 /\ c <= 57

RECURSIVE Digits(_)
Digits(n) == IF n < 10 THEN <<48 + n>> ELSE Digits(n \div 10) \o <<48 + (n % 10)>>

\* strconv.Itoa
Itoa(n) == IF n < 0 THEN <<45>> \o Digits(0 - n) ELSE Digits(n)

RECURSIVE DigitsValue(_)
DigitsValue(s) ==
  IF Len(s) = 0 THEN 0
  ELSE 10 * DigitsValue(SubSeq(s, 1, Len(s) - 1)) + (s[Len(s)] - 48)

\* the largest int, of a build whose int has 32 bits (one of 64 bits has
\* 9223372036854775807 and differs in nothing else)
MaxInt == 2147483647

\* the digits of MaxInt and of -(MaxInt + 1), the smallest int
MaxIntDigits == <<50, 49, 52, 55, 52, 56, 51, 54, 52, 55>>
MinIntDigits == <<50, 49, 52, 55, 52, 56, 51, 54, 52, 56>>

\* s without its leading "0"s
RECURSIVE StripZeros(_)
StripZeros(s) ==
  IF Len(s) > 0 /\ s[1] = 48 THEN StripZeros(SubSeq(s, 2, Len(s))) ELSE s

\* whether the number of the digits s is larger than that of the digits limit
ExceedsDigits(s, limit) ==
  LET d == StripZeros(s)
  IN \/ Len(d) > Len(limit)
     \/ /\ Len(d) = Len(limit)
        /\ \E i \in 1..Len(d) : d[i] > limit[i] /\ \A j \in 1..(i - 1) : d[j] = limit[j]

\* minus the number of the digits s
RECURSIVE NegDigitsValue(_)
NegDigitsValue(s) ==
  IF Len(s) = 0 THEN 0
  ELSE 10 * NegDigitsValue(SubSeq(s, 1, Len(s) - 1)) - (s[Len(s)] - 48)

\* strconv.Atoi: an optional sign and one or more decimal digits; a number
\* that does not fit an int gives the nearest int and a range error
Atoi(s) ==
  LET signed == Len(s) > 0 /\ s[1] \in {43, 45}
      neg == signed /\ s[1] = 45
      body == IF signed THEN SubSeq(s, 2, Len(s)) ELSE s
  IN IF Len(body) = 0 \/ \E i \in 1..Len(body) : ~IsDigit(body[i])
     THEN Failed(0, "strconv.Atoi: invalid syntax")
     ELSE IF neg THEN
       IF ExceedsDigits(body, MinIntDigits)
       THEN Failed(0 - MaxInt - 1, "strconv.Atoi: value out of range")
       ELSE Value(NegDigitsValue(StripZeros(body)))
     ELSE IF ExceedsDigits(body, MaxIntDigits)
       THEN Failed(MaxInt, "strconv.Atoi: value out of range")
       ELSE Value(DigitsValue(StripZeros(body)))

\* the alphabet of base64.URLEncoding: A-Z a-z 0-9 - _
B64Char(i) ==
  IF i < 26 THEN 65 + i
  ELSE IF i < 52 THEN 97 + (i - 26)
  ELSE IF i < 62 THEN 48 + (i - 52)
  ELSE IF i = 62 THEN 45 ELSE 95

\* the decode map of that alphabet: the value of a character, or -1
B64Val(c) ==
  IF c >= 65 /\ c <= 90 THEN c - 65
  ELSE IF c >= 97 /\ c <= 122 THEN c - 97 + 26
  ELSE IF c >= 48 /\ c <= 57 THEN c - 48 + 52
  ELSE IF c = 45 THEN 62
  ELSE IF c = 95 THEN 63 ELSE -1

\* base64.URLEncoding.EncodeToString, padded with "="
RECURSIVE EncodeToString(_)
EncodeToString(b) ==
  IF Len(b) = 0 THEN <<>>
  ELSE IF Len(b) = 1 THEN
    <<B64Char(b[1] \div 4), B64Char((b[1] % 4) * 16), 61, 61>>
  ELSE IF Len(b) = 2 THEN
    <<B64Char(b[1] \div 4), B64Char((b[1] % 4) * 16 + (b[2] \div 16)),
      B64Char((b[2] % 16) * 4), 61>>
  ELSE
    <<B64Char(b[1] \div 4), B64Char((b[1] % 4) * 16 + (b[2] \div 16)),
      B64Char((b[2] % 16) * 4 + (b[3] \div 64)), B64Char(b[3] % 64)>>
    \o EncodeToString(SubSeq(b, 4, Len(b)))

\* the bytes of one quantum of 2, 3 or 4 alphabet characters
QuantumBytes(q) ==
  LET v == [i \in 1..Len(q) |-> B64Val(q[i])]
      b1 == v[1] * 4 + (v[2] \div 16)
  IN IF Len(q) = 2 THEN <<b1>>
     ELSE IF Len(q) = 3 THEN <<b1, (v[2] % 16) * 16 + (v[3] \div 4)>>
     ELSE <<b1, (v[2] % 16) * 16 + (v[3] \div 4), (v[3] % 4) * 64 + v[4]>>

RECURSIVE DecodeQuanta(_)
DecodeQuanta(s) ==
  IF Len(s) = 0 THEN Value(<<>>)
  ELSE IF Len(s) < 4 THEN Failed(<<>>, "illegal base64 data")
  ELSE
    LET q == SubSeq(s, 1, 4)
        last == Len(s) = 4
        data == IF last /\ q[4] = 61
                THEN IF q[3] = 61 THEN SubSeq(q, 1, 2) ELSE SubSeq(q, 1, 3)
                ELSE q
    IN IF \E i \in 1..Len(data) : B64Val(data[i]) = -1
       THEN Failed(<<>>, "illegal base64 data")
       ELSE LET rest == DecodeQuanta(SubSeq(s, 5, Len(s)))
            IN Failed(QuantumBytes(data) \o rest.val, rest.err)

\* base64.URLEncoding.DecodeString: "\r" and "\n" are skipped, padding is
\* required and ends the input, the unused low bits are not checked; with an
\* error come the bytes of the quanta before the bad one
DecodeString(s) ==
  DecodeQuanta(SelectSeq(s, LAMBDA c : c \notin {10, 13}))

(***************************************************************************)
(* The specs.  RepoSpec is [URI, RID], RepoRevSpec is [RepoSpec, Rev,      *)
(* CommitID], DeltaSpec is [Base, Head].  A route-variable map is a        *)
(* function from its keys to strings; a missing key reads as "".           *)
(***************************************************************************)
ZeroRepoSpec == [URI |-> <<>>, RID |-> 0]
ZeroRepoRevSpec == [RepoSpec |-> ZeroRepoSpec, Rev |-> <<>>, CommitID |-> <<>>]
ZeroDeltaSpec == [Base |-> ZeroRepoRevSpec, Head |-> ZeroRepoRevSpec]

Get(m, k) == IF k \in DOMAIN m THEN m[k] ELSE <<>>

\* m[k] = v on a Go map
Put(m, k, v) == (k :> v) @@ m

(***************************************************************************)
(* repositories.go                                                         *)
(***************************************************************************)
\* RepoSpec.PathComponent
PathComponent(s) ==
  IF s.RID > 0 THEN Returned(RIDPrefix \o Itoa(s.RID))
  ELSE IF s.URI # <<>> THEN
    IF HasPrefix(SourcegraphCom, s.URI)
    THEN SliceFrom(s.URI, Len(SourcegraphCom))
    ELSE Returned(s.URI)
  ELSE Panicked("empty RepoSpec")

\* RepoSpec.RouteVars
RepoSpecRouteVars(s) ==
  LET pathComponent == PathComponent(s)
  IN IF pathComponent.panic # "" THEN pathComponent
     ELSE Returned("RepoSpec" :> pathComponent.val)

\* ParseRepoSpec cutting the prefix one byte short (pathComponent[1:]): C4
\* tells it from ParseRepoSpec
ParseRepoSpec_ShortCut(pathComponent) ==
  IF pathComponent = <<>> THEN Failed(ZeroRepoSpec, "empty repository spec")
  ELSE IF HasPrefix(pathComponent, RIDPrefix) THEN
    LET digits == SliceFrom(pathComponent, 1)
        rid == Atoi(digits.val)
    IN IF digits.panic # "" THEN Crashed(digits.panic)
       ELSE Failed([URI |-> <<>>, RID |-> rid.val], rid.err)
  ELSE IF HasPrefix(pathComponent, SourcegraphSlash)
    THEN Value([URI |-> SourcegraphCom \o pathComponent, RID |-> 0])
    ELSE Value([URI |-> pathComponent, RID |-> 0])

\* ParseRepoSpec returning the RID without the error of strconv.Atoi: C13
\* tells it from ParseRepoSpec
ParseRepoSpec_NoAtoiErr(pathComponent) ==
  IF pathComponent = <<>> THEN Failed(ZeroRepoSpec, "empty repository spec")
  ELSE IF HasPrefix(pathComponent, RIDPrefix) THEN
    LET digits == SliceFrom(pathComponent, 2)
        rid == Atoi(digits.val)
    IN IF digits.panic # "" THEN Crashed(digits.panic)
       ELSE Value([URI |-> <<>>, RID |-> rid.val])
  ELSE IF HasPrefix(pathComponent, SourcegraphSlash)
    THEN Value([URI |-> SourcegraphCom \o pathComponent, RID |-> 0])
    ELSE Value([URI |-> pathComponent, RID |-> 0])

\* ParseRepoSpec cutting one byte more than the prefix (pathComponent[3:]):
\* C14 tells it from ParseRepoSpec
ParseRepoSpec_LongCut(pathComponent) ==
  IF pathComponent = <<>> THEN Failed(ZeroRepoSpec, "empty repository spec")
  ELSE IF HasPrefix(pathComponent, RIDPrefix) THEN
    LET digits == SliceFrom(pathComponent, 3)
        rid == Atoi(digits.val)
    IN IF digits.panic # "" THEN Crashed(digits.panic)
       ELSE Failed([URI |-> <<>>, RID |-> rid.val], rid.err)
  ELSE IF HasPrefix(pathComponent, SourcegraphSlash)
    THEN Value([URI |-> SourcegraphCom \o pathComponent, RID |-> 0])
    ELSE Value([URI |-> pathComponent, RID |-> 0])

\* ParseRepoSpec without the "sourcegraph.com/" it puts before
\* "sourcegraph/": C21 tells it from ParseRepoSpec
ParseRepoSpec_NoPrepend(pathComponent) ==
  IF pathComponent = <<>> THEN Failed(ZeroRepoSpec, "empty repository spec")
  ELSE IF HasPrefix(pathComponent, RIDPrefix) THEN
    LET digits == SliceFrom(pathComponent, 2)
        rid == Atoi(digits.val)
    IN IF digits.panic # "" THEN Crashed(digits.panic)
       ELSE Failed([URI |-> <<>>, RID |-> rid.val], rid.err)
  ELSE Value([URI |-> pathComponent, RID |-> 0])

\* ParseRepoSpec
ParseRepoSpec(pathComponent) ==
  IF pathComponent = <<>> THEN Failed(ZeroRepoSpec, "empty repository spec")
  ELSE IF HasPrefix(pathComponent, RIDPrefix) THEN
    LET digits == SliceFrom(pathComponent, 2)
        rid == Atoi(digits.val)
    IN IF digits.panic # "" THEN Crashed(digits.panic)
       ELSE Failed([URI |-> <<>>, RID |-> rid.val], rid.err)
  ELSE IF HasPrefix(pathComponent, SourcegraphSlash)
    THEN Value([URI |-> SourcegraphCom \o pathComponent, RID |-> 0])
    ELSE Value([URI |-> pathComponent, RID |-> 0])

\* UnmarshalRepoSpec
UnmarshalRepoSpec(routeVars) == ParseRepoSpec(Get(routeVars, "RepoSpec"))

\* RevPathComponent joining Rev and CommitID without the separator: C9 tells
\* it from RevPathComponent
RevPathComponent_NoSep(s) ==
  IF s.Rev = <<>> /\ s.CommitID # <<>>
  THEN Panicked("invalid empty Rev but non-empty CommitID")
  ELSE IF s.CommitID # <<>>
    THEN Returned(s.Rev \o s.CommitID)
    ELSE Returned(s.Rev)

\* RevPathComponent without the check of an empty Rev: C10 tells it from
\* RevPathComponent
RevPathComponent_NoCheck(s) ==
  IF s.CommitID # <<>>
  THEN Returned(s.Rev \o repoRevSpecCommitSep \o s.CommitID)
  ELSE Returned(s.Rev)

\* RepoRevSpec.RevPathComponent (the panic's message without the CommitID it
\* ends with, in parentheses)
RevPathComponent(s) ==
  IF s.Rev = <<>> /\ s.CommitID # <<>>
  THEN Panicked("invalid empty Rev but non-empty CommitID")
  ELSE IF s.CommitID # <<>>
    THEN Returned(s.Rev \o repoRevSpecCommitSep \o s.CommitID)
    ELSE Returned(s.Rev)

\* RepoRevSpec.RouteVars
RepoRevSpecRouteVars(s) ==
  LET m == RepoSpecRouteVars(s.RepoSpec)
  IN IF m.panic # "" THEN m
     ELSE LET rev == RevPathComponent(s)
          IN IF rev.panic # "" THEN rev
             ELSE Returned(Put(m.val, "Rev", rev.val))

\* the 0-based index of the last occurrence of sep in s, or -1
LastIndex(s, sep) ==
  LET at == {i \in 0..(Len(s) - Len(sep)) : SubSeq(s, i + 1, i + Len(sep)) = sep}
  IN IF at = {} THEN -1 ELSE CHOOSE i \in at : \A j \in at : i >= j

\* UnmarshalRepoRevSpec without the check of an empty Rev: C18 tells it from
\* UnmarshalRepoRevSpec
UnmarshalRepoRevSpec_NoCheck(routeVars) ==
  LET repoSpec == UnmarshalRepoSpec(routeVars)
      revStr == Get(routeVars, "Rev")
      i == Index(revStr, repoRevSpecCommitSep)
      rev == SliceTo(revStr, i)
      commitID == SliceFrom(revStr, i + Len(repoRevSpecCommitSep))
  IN IF repoSpec.panic # "" THEN repoSpec
     ELSE IF repoSpec.err # "" THEN Failed(ZeroRepoRevSpec, repoSpec.err)
     ELSE IF i = -1
       THEN Value([RepoSpec |-> repoSpec.val, Rev |-> revStr, CommitID |-> <<>>])
     ELSE IF rev.panic # "" THEN Crashed(rev.panic)
     ELSE IF commitID.panic # "" THEN Crashed(commitID.panic)
     ELSE Value([RepoSpec |-> repoSpec.val, Rev |-> rev.val, CommitID |-> commitID.val])

\* UnmarshalRepoRevSpec splitting at the last "===" (strings.LastIndex): C20
\* tells it from UnmarshalRepoRevSpec
UnmarshalRepoRevSpec_LastSep(routeVars) ==
  LET repoSpec == UnmarshalRepoSpec(routeVars)
      revStr == Get(routeVars, "Rev")
      i == LastIndex(revStr, repoRevSpecCommitSep)
      rev == SliceTo(revStr, i)
      commitID == SliceFrom(revStr, i + Len(repoRevSpecCommitSep))
      repoRevSpec ==
        IF i = -1
        THEN [RepoSpec |-> repoSpec.val, Rev |-> revStr, CommitID |-> <<>>]
        ELSE [RepoSpec |-> repoSpec.val, Rev |-> rev.val, CommitID |-> commitID.val]
  IN IF repoSpec.panic # "" THEN repoSpec
     ELSE IF repoSpec.err # "" THEN Failed(ZeroRepoRevSpec, repoSpec.err)
     ELSE IF i # -1 /\ rev.panic # "" THEN Crashed(rev.panic)
     ELSE IF i # -1 /\ commitID.panic # "" THEN Crashed(commitID.panic)
     ELSE IF repoRevSpec.Rev = <<>> /\ repoRevSpec.CommitID # <<>>
       THEN Failed(ZeroRepoRevSpec, "invalid empty Rev but non-empty CommitID")
       ELSE Value(repoRevSpec)

\* UnmarshalRepoRevSpec (the error's message without the CommitID it ends
\* with, in parentheses)
UnmarshalRepoRevSpec(routeVars) ==
  LET repoSpec == UnmarshalRepoSpec(routeVars)
      revStr == Get(routeVars, "Rev")
      i == Index(revStr, repoRevSpecCommitSep)
      rev == SliceTo(revStr, i)
      commitID == SliceFrom(revStr, i + Len(repoRevSpecCommitSep))
      repoRevSpec ==
        IF i = -1
        THEN [RepoSpec |-> repoSpec.val, Rev |-> revStr, CommitID |-> <<>>]
        ELSE [RepoSpec |-> repoSpec.val, Rev |-> rev.val, CommitID |-> commitID.val]
  IN IF repoSpec.panic # "" THEN repoSpec
     ELSE IF repoSpec.err # "" THEN Failed(ZeroRepoRevSpec, repoSpec.err)
     ELSE IF i # -1 /\ rev.panic # "" THEN Crashed(rev.panic)
     ELSE IF i # -1 /\ commitID.panic # "" THEN Crashed(commitID.panic)
     ELSE IF repoRevSpec.Rev = <<>> /\ repoRevSpec.CommitID # <<>>
       THEN Failed(ZeroRepoRevSpec, "invalid empty Rev but non-empty CommitID")
       ELSE Value(repoRevSpec)

(***************************************************************************)
(* deltas.go                                                               *)
(***************************************************************************)
\* encodeCrossRepoRevSpecForDeltaHeadRev without the base64url encoding of the
\* repository token: C6 tells it from encodeCrossRepoRevSpecForDeltaHeadRev
encodeCrossRepoRevSpecForDeltaHeadRev_Raw(rr) ==
  LET repoPC == PathComponent(rr.RepoSpec)
  IN IF repoPC.panic # "" THEN repoPC
     ELSE LET revPC == RevPathComponent(rr)
          IN IF revPC.panic # "" THEN revPC
             ELSE Returned(repoPC.val \o Colon \o revPC.val)

\* encodeCrossRepoRevSpecForDeltaHeadRev
encodeCrossRepoRevSpecForDeltaHeadRev(rr) ==
  LET repoPC == PathComponent(rr.RepoSpec)
  IN IF repoPC.panic # "" THEN repoPC
     ELSE LET revPC == RevPathComponent(rr)
          IN IF revPC.panic # "" THEN revPC
             ELSE Returned(EncodeToString(repoPC.val) \o Colon \o revPC.val)

\* DeltaSpec.RouteVars comparing the URIs of the two repositories only: C12
\* tells it from DeltaSpecRouteVars
DeltaSpecRouteVars_URIOnly(s) ==
  LET m == RepoRevSpecRouteVars(s.Base)
      dhr == IF s.Base.RepoSpec.URI = s.Head.RepoSpec.URI
             THEN RevPathComponent(s.Head)
             ELSE encodeCrossRepoRevSpecForDeltaHeadRev(s.Head)
  IN IF m.panic # "" THEN m
     ELSE IF dhr.panic # "" THEN dhr
     ELSE Returned(Put(m.val, "DeltaHeadRev", dhr.val))

\* DeltaSpec.RouteVars
DeltaSpecRouteVars(s) ==
  LET m == RepoRevSpecRouteVars(s.Base)
      dhr == IF s.Base.RepoSpec = s.Head.RepoSpec
             THEN RevPathComponent(s.Head)
             ELSE encodeCrossRepoRevSpecForDeltaHeadRev(s.Head)
  IN IF m.panic # "" THEN m
     ELSE IF dhr.panic # "" THEN dhr
     ELSE Returned(Put(m.val, "DeltaHeadRev", dhr.val))

\* UnmarshalDeltaSpec splitting "DeltaHeadRev" at its last ":"
\* (strings.LastIndex): C19 tells it from UnmarshalDeltaSpec
UnmarshalDeltaSpec_LastColon(routeVars) ==
  LET base == UnmarshalRepoRevSpec(routeVars)
      dhr == Get(routeVars, "DeltaHeadRev")
      i == LastIndex(dhr, Colon)
      repoPCB64 == SliceTo(dhr, i)
      revPC == SliceFrom(dhr, i + 1)
      repoPC == DecodeString(repoPCB64.val)
      cross == UnmarshalRepoRevSpec(("RepoSpec" :> repoPC.val) @@ ("Rev" :> revPC.val))
      same == UnmarshalRepoRevSpec(
                ("RepoSpec" :> Get(routeVars, "RepoSpec")) @@ ("Rev" :> dhr))
  IN IF base.panic # "" THEN base
     ELSE IF base.err # "" THEN Failed(ZeroDeltaSpec, base.err)
     ELSE IF i # -1 THEN
       IF repoPCB64.panic # "" THEN Crashed(repoPCB64.panic)
       ELSE IF revPC.panic # "" THEN Crashed(revPC.panic)
       ELSE IF repoPC.err # "" THEN Failed(ZeroDeltaSpec, repoPC.err)
       ELSE IF cross.panic # "" THEN cross
       ELSE IF cross.err # "" THEN Failed(ZeroDeltaSpec, cross.err)
       ELSE Value([Base |-> base.val, Head |-> cross.val])
     ELSE IF same.panic # "" THEN same
       ELSE IF same.err # "" THEN Failed(ZeroDeltaSpec, same.err)
       ELSE Value([Base |-> base.val, Head |-> same.val])

\* UnmarshalDeltaSpec taking the head's repository from the "RepoSpec" key
\* also when "DeltaHeadRev" names one: C22 tells it from UnmarshalDeltaSpec
UnmarshalDeltaSpec_HeadFromBase(routeVars) ==
  LET base == UnmarshalRepoRevSpec(routeVars)
      dhr == Get(routeVars, "DeltaHeadRev")
      i == Index(dhr, Colon)
      repoPCB64 == SliceTo(dhr, i)
      revPC == SliceFrom(dhr, i + 1)
      repoPC == DecodeString(repoPCB64.val)
      cross == UnmarshalRepoRevSpec(
                 ("RepoSpec" :> Get(routeVars, "RepoSpec")) @@ ("Rev" :> revPC.val))
      same == UnmarshalRepoRevSpec(
                ("RepoSpec" :> Get(routeVars, "RepoSpec")) @@ ("Rev" :> dhr))
  IN IF base.panic # "" THEN base
     ELSE IF base.err # "" THEN Failed(ZeroDeltaSpec, base.err)
     ELSE IF i # -1 THEN
       IF repoPCB64.panic # "" THEN Crashed(repoPCB64.panic)
       ELSE IF revPC.panic # "" THEN Crashed(revPC.panic)
       ELSE IF repoPC.err # "" THEN Failed(ZeroDeltaSpec, repoPC.err)
       ELSE IF cross.panic # "" THEN cross
       ELSE IF cross.err # "" THEN Failed(ZeroDeltaSpec, cross.err)
       ELSE Value([Base |-> base.val, Head |-> cross.val])
     ELSE IF same.panic # "" THEN same
       ELSE IF same.err # "" THEN Failed(ZeroDeltaSpec, same.err)
       ELSE Value([Base |-> base.val, Head |-> same.val])

\* UnmarshalDeltaSpec returning s, with the base it has decoded, when the head
\* fails: C23 tells it from UnmarshalDeltaSpec
UnmarshalDeltaSpec_Partial(routeVars) ==
  LET base == UnmarshalRepoRevSpec(routeVars)
      s == [Base |-> base.val, Head |-> ZeroRepoRevSpec]
      dhr == Get(routeVars, "DeltaHeadRev")
      i == Index(dhr, Colon)
      repoPCB64 == SliceTo(dhr, i)
      revPC == SliceFrom(dhr, i + 1)
      repoPC == DecodeString(repoPCB64.val)
      cross == UnmarshalRepoRevSpec(("RepoSpec" :> repoPC.val) @@ ("Rev" :> revPC.val))
      same == UnmarshalRepoRevSpec(
                ("RepoSpec" :> Get(routeVars, "RepoSpec")) @@ ("Rev" :> dhr))
  IN IF base.panic # "" THEN base
     ELSE IF base.err # "" THEN Failed(ZeroDeltaSpec, base.err)
     ELSE IF i # -1 THEN
       IF repoPCB64.panic # "" THEN Crashed(repoPCB64.panic)
       ELSE IF revPC.panic # "" THEN Crashed(revPC.panic)
       ELSE IF repoPC.err # "" THEN Failed(s, repoPC.err)
       ELSE IF cross.panic # "" THEN cross
       ELSE IF cross.err # "" THEN Failed(s, cross.err)
       ELSE Value([Base |-> base.val, Head |-> cross.val])
     ELSE IF same.panic # "" THEN same
       ELSE IF same.err # "" THEN Failed(s, same.err)
       ELSE Value([Base |-> base.val, Head |-> same.val])

\* UnmarshalDeltaSpec
UnmarshalDeltaSpec(routeVars) ==
  LET base == UnmarshalRepoRevSpec(routeVars)
      dhr == Get(routeVars, "DeltaHeadRev")
      i == Index(dhr, Colon)
      repoPCB64 == SliceTo(dhr, i)
      revPC == SliceFrom(dhr, i + 1)
      repoPC == DecodeString(repoPCB64.val)
      cross == UnmarshalRepoRevSpec(("RepoSpec" :> repoPC.val) @@ ("Rev" :> revPC.val))
      same == UnmarshalRepoRevSpec(
                ("RepoSpec" :> Get(routeVars, "RepoSpec")) @@ ("Rev" :> dhr))
  IN IF base.panic # "" THEN base
     ELSE IF base.err # "" THEN Failed(ZeroDeltaSpec, base.err)
     ELSE IF i # -1 THEN
       IF repoPCB64.panic # "" THEN Crashed(repoPCB64.panic)
       ELSE IF revPC.panic # "" THEN Crashed(revPC.panic)
       ELSE IF repoPC.err # "" THEN Failed(ZeroDeltaSpec, repoPC.err)
       ELSE IF cross.panic # "" THEN cross
       ELSE IF cross.err # "" THEN Failed(ZeroDeltaSpec, cross.err)
       ELSE Value([Base |-> base.val, Head |-> cross.val])
     ELSE IF same.panic # "" THEN same
       ELSE IF same.err # "" THEN Failed(ZeroDeltaSpec, same.err)
       ELSE Value([Base |-> base.val, Head |-> same.val])

\* a *Def: nil or a def
Nil == "nil"
DefPtrs == {Nil, "def1", "def2"}

\* DefDelta
DefDeltas == [Base : DefPtrs, Head : DefPtrs]

\* DefDelta.Added
Added(dd) == dd.Base = Nil /\ dd.Head # Nil

\* DefDelta.Changed with || for && : C15 tells it from Changed
Changed_Either(dd) == dd.Base # Nil \/ dd.Head # Nil

\* DefDelta.Changed
Changed(dd) == dd.Base # Nil /\ dd.Head # Nil

\* DefDelta.Deleted
Deleted(dd) == dd.Base # Nil /\ dd.Head = Nil

(***************************************************************************)
(* The specs the callers construct.  Strings are built from a few parts,   *)
(* among them the literals the codec gives a meaning to.                   *)
(***************************************************************************)
RECURSIVE Concats(_, _)
Concats(atoms, n) ==
  IF n = 0 THEN {<<>>}
  ELSE Concats(atoms, n - 1) \cup {a \o t : a \in atoms, t \in Concats(atoms, n - 1)}

\* "s", "x", ":", "R$", "sourcegraph.com/", "sourcegraph/"
URIAtoms == {<<115>>, <<120>>, Colon, RIDPrefix, SourcegraphCom, SourcegraphSlash}
\* "v", ":", "===", "="
RevAtoms == {<<118>>, Colon, repoRevSpecCommitSep, <<61>>}
\* "", "c", "=c"
CommitIDs == {<<>>, <<99>>, <<61, 99>>}

\* RIDs of one, two and three digits, the largest, and the RIDs that are
\* not set
RIDs == ((-1)..MaxRID) \cup {12, 120, MaxInt}

RepoSpecs == [URI : Concats(URIAtoms, MaxParts), RID : RIDs]

SampleRepoSpecs ==
  {[URI |-> u, RID |-> 0] : u \in Concats(URIAtoms, 1)}
  \cup {[URI |-> <<>>, RID |-> i] : i \in 1..MaxRID}
  \cup {[URI |-> <<120>>, RID |-> 1]}

RepoRevSpecs ==
  [RepoSpec : SampleRepoSpecs, Rev : Concats(RevAtoms, MaxParts), CommitID : CommitIDs]

DeltaRepoRevSpecs ==
  [RepoSpec : SampleRepoSpecs, Rev : Concats(RevAtoms, 1), CommitID : {<<>>, <<99>>}]

DeltaSpecs == [Base : DeltaRepoRevSpecs, Head : DeltaRepoRevSpecs]

(***************************************************************************)
(* The route variables of a request: any strings, the well-formed tokens   *)
(* and the malformed ones, and any of the keys missing.                    *)
(***************************************************************************)
\* "R$", "1", "0", "-", "x", "s", "sourcegraph/"
PathAtoms == {RIDPrefix, <<49>>, <<48>>, <<45>>, <<120>>, <<115>>, SourcegraphSlash}

\* what may follow "R$": "", "0", "1", "-", "+", "x", "2147483647",
\* "2147483648"
NumberParts ==
  {<<>>, <<48>>, <<49>>, <<45>>, <<43>>, <<120>>, MaxIntDigits, MinIntDigits}

RIDInputs == {RIDPrefix \o a \o b : a \in NumberParts, b \in NumberParts}

PathInputs == Concats(PathAtoms, MaxParts) \cup RIDInputs

\* "", "v", "c", ":", "===", "="
RevParts == Concats(RevAtoms \cup {<<99>>}, 1)

\* two parts with "===" between them
SepJoined == {a \o repoRevSpecCommitSep \o b : a \in RevParts, b \in RevParts}

RevInputs == Concats(RevAtoms \cup {<<99>>}, MaxParts) \cup SepJoined

HeadRevInputs == Concats(RevAtoms \cup {<<99>>}, MaxParts - 1) \cup SepJoined

\* "", "R$1", "x", "R$", "R$2147483648"
FewPathInputs ==
  {<<>>, RIDPrefix \o <<49>>, <<120>>, RIDPrefix, RIDPrefix \o MinIntDigits}

\* "", "v", "===", "===c", "v===c"
FewRevInputs ==
  {<<>>, <<118>>, repoRevSpecCommitSep, repoRevSpecCommitSep \o <<99>>,
   <<118>> \o repoRevSpecCommitSep \o <<99>>}

\* what may stand before the ":" of a "DeltaHeadRev": "", "eA==" and "UiQx"
\* (the base64url text of "x" and of "R$1"), "UiQ=" (of "R$"), "eA=", "e",
\* "eA==eA==", "e.==", "eA\n=="
RepoB64Inputs ==
  {<<>>, <<101, 65, 61, 61>>, <<85, 105, 81, 120>>, <<85, 105, 81, 61>>,
   <<101, 65, 61>>, <<101>>, <<101, 65, 61, 61, 101, 65, 61, 61>>,
   <<101, 46, 61, 61>>, <<101, 65, 10, 61, 61>>}

HeadInputs ==
  HeadRevInputs \cup {b \o Colon \o r : b \in RepoB64Inputs, r \in HeadRevInputs}

\* the maps with the key k, one for each value, and the map without it
WithKey(k, values) == {<<>>} \cup {k :> v : v \in values}

RepoSpecRouteVarsInputs == WithKey("RepoSpec", PathInputs)

RepoRevSpecRouteVarsInputs ==
  {r @@ v : r \in WithKey("RepoSpec", FewPathInputs), v \in WithKey("Rev", RevInputs)}

DeltaSpecRouteVarsInputs ==
  {r @@ v @@ h : r \in WithKey("RepoSpec", FewPathInputs),
                 v \in WithKey("Rev", FewRevInputs),
                 h \in WithKey("DeltaHeadRev", HeadInputs)}

(***************************************************************************)
(* Concurrent callers.  A thread runs one call of the codec on an argument *)
(* of its own.  A map is an object on the heap: the map literal of         *)
(* RepoSpec.RouteVars allocates it, the stores of RepoRevSpec.RouteVars    *)
(* and DeltaSpec.RouteVars write to it through the reference m.            *)
(***************************************************************************)
Threads == 1..NumThreads

ReadyThread == [fn |-> "", arg |-> <<>>, pc |-> "ready", m |-> 0, res |-> Returned(<<>>)]

\* "x", "v", "c"
ConcRepoSpecs == {[URI |-> <<120>>, RID |-> 0], [URI |-> <<>>, RID |-> 1]}

ConcRepoRevSpecs ==
  {[RepoSpec |-> [URI |-> <<120>>, RID |-> 0], Rev |-> <<118>>, CommitID |-> <<99>>],
   [RepoSpec |-> [URI |-> <<>>, RID |-> 1], Rev |-> <<>>, CommitID |-> <<99>>]}

ConcDeltaSpecs ==
  {[Base |-> [RepoSpec |-> [URI |-> <<120>>, RID |-> 0], Rev |-> <<118>>, CommitID |-> <<>>],
    Head |-> [RepoSpec |-> [URI |-> <<120>>, RID |-> 0], Rev |-> <<99>>, CommitID |-> <<>>]],
   [Base |-> [RepoSpec |-> [URI |-> <<>>, RID |-> 1], Rev |-> <<118>>, CommitID |-> <<>>],
    Head |-> [RepoSpec |-> [URI |-> <<120>>, RID |-> 0], Rev |-> <<118>>, CommitID |-> <<99>>]]}

\* the encoder calls a thread may make: <<function, argument>>
EncoderCalls ==
  ({"RepoSpec.RouteVars"} \X ConcRepoSpecs)
  \cup ({"RepoRevSpec.RouteVars"} \X ConcRepoRevSpecs)
  \cup ({"DeltaSpec.RouteVars"} \X ConcDeltaSpecs)

\* the decoder calls a thread may make, each on a map of its own
DecoderCalls ==
  {<<"UnmarshalRepoSpec", "RepoSpec" :> <<120>>>>,
   <<"UnmarshalRepoRevSpec", ("RepoSpec" :> <<120>>) @@ ("Rev" :> <<118, 61, 61, 61, 99>>)>>,
   <<"UnmarshalDeltaSpec",
     ("RepoSpec" :> <<120>>) @@ ("Rev" :> <<118>>) @@ ("DeltaHeadRev" :> <<101, 65, 61, 61, 58, 118>>)>>}

\* one map kept by the package and handed to every call: C16 tells it from
\* NewMap
NewMap_Reused(h, m) ==
  IF h = <<>> THEN [heap |-> <<m>>, addr |-> 1]
  ELSE [heap |-> [h EXCEPT ![1] = m], addr |-> 1]

\* a map literal, map[string]string{...}: a new object on the heap
NewMap(h, m) == [heap |-> Append(h, m), addr |-> Len(h) + 1]

\* the RepoSpec whose RouteVars makes the map of the call
RepoSpecOf(f, a) ==
  IF f = "RepoSpec.RouteVars" THEN a
  ELSE IF f = "RepoRevSpec.RouteVars" THEN a.RepoSpec
  ELSE a.Base.RepoSpec

\* the RepoRevSpec whose RouteVars stores "Rev"
RepoRevSpecOf(f, a) == IF f = "RepoRevSpec.RouteVars" THEN a ELSE a.Base

Finish(t, result) ==
  threads' = [threads EXCEPT ![t].pc = "done", ![t].res = result]

\* RepoSpec.RouteVars, entered through whichever RouteVars the thread calls:
\* the map literal with "RepoSpec"
AllocRouteVars(t) ==
  /\ threads[t].pc = "ready"
  /\ \E call \in EncoderCalls :
       LET pathComponent == PathComponent(RepoSpecOf(call[1], call[2]))
           new == NewMap(heap, "RepoSpec" :> pathComponent.val)
       IN IF pathComponent.panic # ""
          THEN /\ threads' = [threads EXCEPT ![t] =
                    [fn |-> call[1], arg |-> call[2], pc |-> "done", m |-> 0,
                     res |-> pathComponent]]
               /\ UNCHANGED heap
          ELSE /\ heap' = new.heap
               /\ threads' = [threads EXCEPT ![t] =
                    [fn |-> call[1], arg |-> call[2],
                     pc |-> IF call[1] = "RepoSpec.RouteVars" THEN "return" ELSE "putRev",
                     m |-> new.addr, res |-> Returned(<<>>)]]
  /\ UNCHANGED <<pc, fn, arg, panic, component, routeMap, dfn, res>>

\* RepoRevSpec.RouteVars: m["Rev"] = s.RevPathComponent()
PutRev(t) ==
  /\ threads[t].pc = "putRev"
  /\ LET rev == RevPathComponent(RepoRevSpecOf(threads[t].fn, threads[t].arg))
     IN IF rev.panic # ""
        THEN Finish(t, rev) /\ UNCHANGED heap
        ELSE /\ heap' = [heap EXCEPT ![threads[t].m] = Put(@, "Rev", rev.val)]
             /\ threads' = [threads EXCEPT ![t].pc =
                  IF threads[t].fn = "DeltaSpec.RouteVars"
                  THEN "putDeltaHeadRev" ELSE "return"]
  /\ UNCHANGED <<pc, fn, arg, panic, component, routeMap, dfn, res>>

\* DeltaSpec.RouteVars: m["DeltaHeadRev"] = ...
PutDeltaHeadRev(t) ==
  /\ threads[t].pc = "putDeltaHeadRev"
  /\ LET s == threads[t].arg
         dhr == IF s.Base.RepoSpec = s.Head.RepoSpec
                THEN RevPathComponent(s.Head)
                ELSE encodeCrossRepoRevSpecForDeltaHeadRev(s.Head)
     IN IF dhr.panic # ""
        THEN Finish(t, dhr) /\ UNCHANGED heap
        ELSE /\ heap' = [heap EXCEPT ![threads[t].m] = Put(@, "DeltaHeadRev", dhr.val)]
             /\ threads' = [threads EXCEPT ![t].pc = "return"]
  /\ UNCHANGED <<pc, fn, arg, panic, component, routeMap, dfn, res>>

\* return m: the caller has the map m refers to
ReturnRouteVars(t) ==
  /\ threads[t].pc = "return"
  /\ Finish(t, Returned(heap[threads[t].m]))
  /\ UNCHANGED <<pc, fn, arg, panic, component, routeMap, dfn, res, heap>>

\* a decoder, which reads the map it is given and makes no map
RunDecoder(t) ==
  /\ threads[t].pc = "ready"
  /\ \E call \in DecoderCalls :
       threads' = [threads EXCEPT ![t] =
         [fn |-> call[1], arg |-> call[2], pc |-> "done", m |-> 0,
          res |-> IF call[1] = "UnmarshalRepoSpec" THEN UnmarshalRepoSpec(call[2])
                  ELSE IF call[1] = "UnmarshalRepoRevSpec" THEN UnmarshalRepoRevSpec(call[2])
                  ELSE UnmarshalDeltaSpec(call[2])]]
  /\ UNCHANGED <<pc, fn, arg, panic, component, routeMap, dfn, res, heap>>

ConcNext ==
  \/ \E t \in Threads : AllocRouteVars(t)
  \/ \E t \in Threads : PutRev(t)
  \/ \E t \in Threads : PutDeltaHeadRev(t)
  \/ \E t \in Threads : ReturnRouteVars(t)
  \/ \E t \in Threads : RunDecoder(t)

(***************************************************************************)
(* The state machine: a caller constructs a spec and calls an encoder on   *)
(* it; what the encoder returned is then handed to a decoder.              *)
(***************************************************************************)
Init ==
  /\ pc = "idle"
  /\ fn = ""
  /\ arg = <<>>
  /\ panic = ""
  /\ component = <<>>
  /\ routeMap = <<>>
  /\ dfn = ""
  /\ res = Value(<<>>)
  /\ threads = [t \in Threads |-> ReadyThread]
  /\ heap = <<>>

\* a call of an encoder that returns a string
EncodeToken(name, s, result) ==
  /\ pc' = "encoded"
  /\ fn' = name
  /\ arg' = s
  /\ panic' = result.panic
  /\ component' = result.val
  /\ UNCHANGED <<routeMap, dfn, res, threads, heap>>

\* a call of an encoder that returns a map
EncodeMap(name, s, result) ==
  /\ pc' = "encoded"
  /\ fn' = name
  /\ arg' = s
  /\ panic' = result.panic
  /\ routeMap' = result.val
  /\ UNCHANGED <<component, dfn, res, threads, heap>>

\* a call of a decoder on what the encoder returned
Decode(name, result) ==
  /\ pc = "encoded"
  /\ panic = ""
  /\ pc' = "decoded"
  /\ dfn' = name
  /\ res' = result
  /\ panic' = result.panic
  /\ UNCHANGED <<fn, arg, component, routeMap, threads, heap>>

\* a call of a decoder on the path component of a request
DecodeToken(name, token, result) ==
  /\ pc' = "decoded"
  /\ dfn' = name
  /\ component' = token
  /\ res' = result
  /\ panic' = result.panic
  /\ UNCHANGED <<fn, arg, routeMap, threads, heap>>

\* a call of a decoder on the route variables of a request
DecodeMap(name, routeVars, result) ==
  /\ pc' = "decoded"
  /\ dfn' = name
  /\ routeMap' = routeVars
  /\ res' = result
  /\ panic' = result.panic
  /\ UNCHANGED <<fn, arg, component, threads, heap>>

MapEncoders == {"RepoSpec.RouteVars", "RepoRevSpec.RouteVars", "DeltaSpec.RouteVars"}

CallPathComponent ==
  /\ pc = "idle"
  /\ \E s \in RepoSpecs : EncodeToken("RepoSpec.PathComponent", s, PathComponent(s))

CallRepoSpecRouteVars ==
  /\ pc = "idle"
  /\ \E s \in RepoSpecs : EncodeMap("RepoSpec.RouteVars", s, RepoSpecRouteVars(s))

CallRevPathComponent ==
  /\ pc = "idle"
  /\ \E s \in RepoRevSpecs :
       EncodeToken("RepoRevSpec.RevPathComponent", s, RevPathComponent(s))

CallRepoRevSpecRouteVars ==
  /\ pc = "idle"
  /\ \E s \in RepoRevSpecs : EncodeMap("RepoRevSpec.RouteVars", s, RepoRevSpecRouteVars(s))

CallDeltaSpecRouteVars ==
  /\ pc = "idle"
  /\ \E s \in DeltaSpecs : EncodeMap("DeltaSpec.RouteVars", s, DeltaSpecRouteVars(s))

CallParseRepoSpec ==
  /\ fn = "RepoSpec.PathComponent"
  /\ Decode("ParseRepoSpec", ParseRepoSpec(component))

CallUnmarshalRepoSpec ==
  /\ fn \in MapEncoders
  /\ Decode("UnmarshalRepoSpec", UnmarshalRepoSpec(routeMap))

CallUnmarshalRepoRevSpec ==
  /\ fn \in MapEncoders
  /\ Decode("UnmarshalRepoRevSpec", UnmarshalRepoRevSpec(routeMap))

CallUnmarshalDeltaSpec ==
  /\ fn \in MapEncoders
  /\ Decode("UnmarshalDeltaSpec", UnmarshalDeltaSpec(routeMap))

RequestParseRepoSpec ==
  /\ pc = "idle"
  /\ \E t \in PathInputs : DecodeToken("ParseRepoSpec", t, ParseRepoSpec(t))

RequestUnmarshalRepoSpec ==
  /\ pc = "idle"
  /\ \E m \in RepoSpecRouteVarsInputs :
       DecodeMap("UnmarshalRepoSpec", m, UnmarshalRepoSpec(m))

RequestUnmarshalRepoRevSpec ==
  /\ pc = "idle"
  /\ \E m \in RepoRevSpecRouteVarsInputs :
       DecodeMap("UnmarshalRepoRevSpec", m, UnmarshalRepoRevSpec(m))

RequestUnmarshalDeltaSpec ==
  /\ pc = "idle"
  /\ \E m \in DeltaSpecRouteVarsInputs :
       DecodeMap("UnmarshalDeltaSpec", m, UnmarshalDeltaSpec(m))

\* a call of a method of a DefDelta: of a new one, or of the one a method
\* was called on before
CallDefDelta(name, dd, result) ==
  /\ pc = "called" => (dd = arg /\ name \notin DOMAIN res.val)
  /\ pc' = "called"
  /\ fn' = "DefDelta"
  /\ arg' = dd
  /\ res' = Value((name :> result) @@ res.val)
  /\ UNCHANGED <<panic, component, routeMap, dfn, threads, heap>>

CallAdded ==
  /\ pc \in {"idle", "called"}
  /\ \E dd \in DefDeltas : CallDefDelta("Added", dd, Added(dd))

CallChanged ==
  /\ pc \in {"idle", "called"}
  /\ \E dd \in DefDeltas : CallDefDelta("Changed", dd, Changed(dd))

CallDeleted ==
  /\ pc \in {"idle", "called"}
  /\ \E dd \in DefDeltas : CallDefDelta("Deleted", dd, Deleted(dd))

Next ==
  \/ CallPathComponent
  \/ CallRepoSpecRouteVars
  \/ CallRevPathComponent
  \/ CallRepoRevSpecRouteVars
  \/ CallDeltaSpecRouteVars
  \/ CallParseRepoSpec
  \/ CallUnmarshalRepoSpec
  \/ CallUnmarshalRepoRevSpec
  \/ CallUnmarshalDeltaSpec
  \/ RequestParseRepoSpec
  \/ RequestUnmarshalRepoSpec
  \/ RequestUnmarshalRepoRevSpec
  \/ RequestUnmarshalDeltaSpec
  \/ CallAdded
  \/ CallChanged
  \/ CallDeleted

Spec == Init /\ [][Next]_vars

\* the threads, in every interleaving of their steps
ConcSpec == Init /\ [][ConcNext]_vars

(***************************************************************************)
(* The vocabulary of the claims.                                           *)
(***************************************************************************)
ValidRepoSpec(r) ==
  \/ r.RID > 0 /\ r.URI = <<>>
  \/ r.RID = 0 /\ r.URI # <<>> /\ ~HasPrefix(r.URI, RIDPrefix)

BadRev(v) == v.Rev = <<>> /\ v.CommitID # <<>>

ValidRepoRevSpec(v) == ValidRepoSpec(v.RepoSpec) /\ ~BadRev(v)

ValidDeltaSpec(d) == ValidRepoRevSpec(d.Base) /\ ValidRepoRevSpec(d.Head)

Count(s, c) == Cardinality({i \in 1..Len(s) : s[i] = c})

Called(name) == pc # "idle" /\ fn = name

Decoded(name, by) == pc = "decoded" /\ fn = name /\ dfn = by

\* the decoder `by` was called on a request's input
Requested(by) == pc = "decoded" /\ fn = "" /\ dfn = by

\* the revision token the documentation of RepoRevSpec describes
RevToken(v) ==
  IF v.CommitID = <<>> THEN v.Rev ELSE v.Rev \o <<61, 61, 61>> \o v.CommitID

(***************************************************************************)
(* C1: every RepoSpec with RID = 0 and a non-empty URI that does not start *)
(* with "R$" is encoded by PathComponent (and RouteVars) and decoded by    *)
(* ParseRepoSpec (and UnmarshalRepoSpec) to itself, without an error.      *)
(***************************************************************************)
C1_URIRoundTrip ==
  \A e \in {<<"RepoSpec.PathComponent", "ParseRepoSpec">>,
            <<"RepoSpec.RouteVars", "UnmarshalRepoSpec">>} :
    (Called(e[1]) /\ arg.RID = 0 /\ arg.URI # <<>> /\ ~HasPrefix(arg.URI, RIDPrefix))
      => /\ panic = ""
         /\ Decoded(e[1], e[2]) => res = Value(arg)

(***************************************************************************)
(* C2: every RepoRevSpec with a valid RepoSpec and with CommitID empty or  *)
(* Rev non-empty is decoded by UnmarshalRepoRevSpec from its RouteVars to  *)
(* itself, without an error.                                               *)
(***************************************************************************)
C2_RepoRevRoundTrip ==
  (Decoded("RepoRevSpec.RouteVars", "UnmarshalRepoRevSpec") /\ ValidRepoRevSpec(arg))
    => res = Value(arg)

(***************************************************************************)
(* C3: every DeltaSpec with valid Base and Head, of the same repository or *)
(* of two, is decoded by UnmarshalDeltaSpec from its RouteVars to itself,  *)
(* without an error.                                                       *)
(***************************************************************************)
C3_DeltaRoundTrip ==
  (Decoded("DeltaSpec.RouteVars", "UnmarshalDeltaSpec") /\ ValidDeltaSpec(arg))
    => res = Value(arg)

(***************************************************************************)
(* C4: every RepoSpec with RID > 0 and an empty URI is encoded by          *)
(* PathComponent and decoded by ParseRepoSpec to itself, without an error. *)
(***************************************************************************)
C4_RIDRoundTrip ==
  (Called("RepoSpec.PathComponent") /\ arg.RID > 0 /\ arg.URI = <<>>)
    => /\ panic = ""
       /\ Decoded("RepoSpec.PathComponent", "ParseRepoSpec") => res = Value(arg)

C4_Witness ==
  /\ Decoded("RepoSpec.PathComponent", "ParseRepoSpec")
  /\ arg.RID > 9
  /\ arg.URI = <<>>
  /\ res.err = ""

(***************************************************************************)
(* C5: for a valid DeltaSpec whose Base and Head are of the same           *)
(* repository, the "DeltaHeadRev" that RouteVars produces contains no ":", *)
(* and UnmarshalDeltaSpec gives a Head of the base repository with the     *)
(* Rev and CommitID of the Head that was encoded.                          *)
(***************************************************************************)
C5_SameRepoHead ==
  (Called("DeltaSpec.RouteVars") /\ ValidDeltaSpec(arg)
     /\ arg.Base.RepoSpec = arg.Head.RepoSpec /\ panic = "")
    => /\ Count(routeMap["DeltaHeadRev"], 58) = 0
       /\ Decoded("DeltaSpec.RouteVars", "UnmarshalDeltaSpec")
            => /\ res.err = ""
               /\ res.val.Head.RepoSpec = arg.Base.RepoSpec
               /\ res.val.Head.Rev = arg.Head.Rev
               /\ res.val.Head.CommitID = arg.Head.CommitID

(***************************************************************************)
(* C6, as claimed: for a valid DeltaSpec whose Base and Head are of two    *)
(* repositories, the "DeltaHeadRev" that RouteVars produces contains       *)
(* exactly one ":".                                                        *)
(***************************************************************************)
C6_ExactlyOneColon ==
  (Called("DeltaSpec.RouteVars") /\ ValidDeltaSpec(arg)
     /\ arg.Base.RepoSpec # arg.Head.RepoSpec /\ panic = "")
    => Count(routeMap["DeltaHeadRev"], 58) = 1

(***************************************************************************)
(* C6, amended: for such a DeltaSpec the "DeltaHeadRev" is the base64url   *)
(* text of the head's repository token (characters of the base64url       *)
(* alphabet and "=", from which the token decodes), one ":", and the       *)
(* head's revision token; its ":" are that one and those of the head's Rev *)
(* and CommitID.                                                           *)
(***************************************************************************)
C6_SeparatorThenRevToken ==
  (Called("DeltaSpec.RouteVars") /\ ValidDeltaSpec(arg)
     /\ arg.Base.RepoSpec # arg.Head.RepoSpec /\ panic = "")
    => LET dhr == routeMap["DeltaHeadRev"]
           i == Index(dhr, Colon)
           repoPC == PathComponent(arg.Head.RepoSpec).val
       IN /\ i # -1
          /\ \A k \in 1..i : B64Val(dhr[k]) # -1 \/ dhr[k] = 61
          /\ DecodeString(SubSeq(dhr, 1, i)) = Value(repoPC)
          /\ SubSeq(dhr, i + 2, Len(dhr)) = RevToken(arg.Head)
          /\ Count(dhr, 58) = 1 + Count(arg.Head.Rev, 58) + Count(arg.Head.CommitID, 58)

C6_Witness ==
  /\ Called("DeltaSpec.RouteVars")
  /\ ValidDeltaSpec(arg)
  /\ arg.Base.RepoSpec # arg.Head.RepoSpec
  /\ panic = ""
  /\ Count(arg.Head.RepoSpec.URI, 58) > 0
  /\ Count(arg.Head.Rev, 58) > 0

(***************************************************************************)
(* C7: PathComponent returns "R$" and the decimal RID when RID > 0;        *)
(* otherwise, for a non-empty URI, the URI without a leading               *)
(* "sourcegraph.com/", and any other non-empty URI unchanged.              *)
(***************************************************************************)
C7_PathComponentValue ==
  Called("RepoSpec.PathComponent")
    => /\ arg.RID > 0
            => panic = "" /\ component = RIDPrefix \o Itoa(arg.RID)
       /\ (arg.RID <= 0 /\ arg.URI # <<>> /\ HasPrefix(arg.URI, SourcegraphCom))
            => /\ panic = ""
               /\ component = SubSeq(arg.URI, Len(SourcegraphCom) + 1, Len(arg.URI))
       /\ (arg.RID <= 0 /\ arg.URI # <<>> /\ ~HasPrefix(arg.URI, SourcegraphCom))
            => panic = "" /\ component = arg.URI

(***************************************************************************)
(* C8: PathComponent panics exactly when RID <= 0 and the URI is empty.    *)
(***************************************************************************)
C8_PanicsOnlyWhenEmpty ==
  Called("RepoSpec.PathComponent")
    => (panic # "" <=> (arg.RID <= 0 /\ arg.URI = <<>>))

C10_PanicsOnBadRev ==
  LET msg == "invalid empty Rev but non-empty CommitID"
      hasPC(r) == PathComponent(r).panic = ""
  IN /\ Called("RepoRevSpec.RevPathComponent")
          => /\ BadRev(arg) => panic = msg /\ component = <<>>
             /\ ~BadRev(arg) => panic = ""
     /\ Called("RepoRevSpec.RouteVars")
          => /\ BadRev(arg) => panic # "" /\ routeMap = <<>>
             /\ ~BadRev(arg) => panic # msg /\ (hasPC(arg.RepoSpec) => panic = "")
     /\ Called("DeltaSpec.RouteVars")
          => /\ (BadRev(arg.Base) \/ BadRev(arg.Head)) => panic # "" /\ routeMap = <<>>
             /\ (~BadRev(arg.Base) /\ ~BadRev(arg.Head))
                  => /\ panic # msg
                     /\ (hasPC(arg.Base.RepoSpec) /\ hasPC(arg.Head.RepoSpec)) => panic = ""

C10_Witness ==
  /\ Called("DeltaSpec.RouteVars")
  /\ ~BadRev(arg.Base)
  /\ BadRev(arg.Head)
  /\ PathComponent(arg.Base.RepoSpec).panic = ""
  /\ panic = "invalid empty Rev but non-empty CommitID"

(***************************************************************************)
(* C11: RepoRevSpec.RouteVars of a spec with a URI returns exactly the map *)
(* of the URI under "Repo", the Rev under "Rev" and, when the CommitID is  *)
(* not empty, the CommitID under "CommitID" (the maps TestRepoRevSpec      *)
(* expects), and UnmarshalRepoRevSpec of the map returns the spec.         *)
(***************************************************************************)
C11_TestRouteVars ==
  (Called("RepoRevSpec.RouteVars") /\ ValidRepoRevSpec(arg)
     /\ arg.RepoSpec.RID = 0 /\ panic = "")
    => /\ routeMap = IF arg.CommitID = <<>>
                     THEN ("Repo" :> arg.RepoSpec.URI) @@ ("Rev" :> arg.Rev)
                     ELSE ("Repo" :> arg.RepoSpec.URI) @@ ("Rev" :> arg.Rev)
                            @@ ("CommitID" :> arg.CommitID)
       /\ Decoded("RepoRevSpec.RouteVars", "UnmarshalRepoRevSpec") => res = Value(arg)

(***************************************************************************)
(* C12: the map DeltaSpec.RouteVars returns has the keys "RepoSpec" and    *)
(* "Rev" with the base's repository and revision tokens, and the key       *)
(* "DeltaHeadRev" with the head's revision token when Base and Head have   *)
(* the same RID and the same URI, and otherwise with the base64url text of *)
(* the head's repository token, ":", and the head's revision token.        *)
(***************************************************************************)
C12_DeltaRouteVars ==
  (Called("DeltaSpec.RouteVars") /\ panic = "")
    => LET same == /\ arg.Base.RepoSpec.RID = arg.Head.RepoSpec.RID
                   /\ arg.Base.RepoSpec.URI = arg.Head.RepoSpec.URI
           headPC == PathComponent(arg.Head.RepoSpec).val
       IN /\ DOMAIN routeMap = {"RepoSpec", "Rev", "DeltaHeadRev"}
          /\ routeMap["RepoSpec"] = PathComponent(arg.Base.RepoSpec).val
          /\ routeMap["Rev"] = RevToken(arg.Base)
          /\ same => routeMap["DeltaHeadRev"] = RevToken(arg.Head)
          /\ ~same => routeMap["DeltaHeadRev"]
                        = EncodeToString(headPC) \o <<58>> \o RevToken(arg.Head)

C12_Witness ==
  /\ Called("DeltaSpec.RouteVars")
  /\ panic = ""
  /\ arg.Base.RepoSpec.URI = arg.Head.RepoSpec.URI
  /\ arg.Base.RepoSpec.RID # arg.Head.RepoSpec.RID
  /\ arg.Head.CommitID # <<>>
  /\ Len(routeMap["DeltaHeadRev"]) > Len(RevToken(arg.Head))

(***************************************************************************)
(* More vocabulary: the texts the decoders are given.                      *)
(***************************************************************************)
\* an optional sign and one or more decimal digits
IsDecimalInteger(s) ==
  LET body == IF Len(s) > 0 /\ s[1] \in {43, 45} THEN SubSeq(s, 2, Len(s)) ELSE s
  IN Len(body) > 0 /\ \A i \in 1..Len(body) : body[i] \in 48..57

\* base64url text: quanta of four characters of A-Z a-z 0-9 - _, the last
\* one padded with one or two "="; line breaks between them do not count
IsBase64URL(s) ==
  LET t == SelectSeq(s, LAMBDA c : c \notin {10, 13})
      alpha(c) == c \in 65..90 \/ c \in 97..122 \/ c \in 48..57 \/ c \in {45, 95}
      n == Len(t)
  IN /\ n % 4 = 0
     /\ \A i \in 1..(n - 2) : alpha(t[i])
     /\ n > 0 => /\ alpha(t[n]) \/ t[n] = 61
                 /\ alpha(t[n - 1]) \/ (t[n - 1] = 61 /\ t[n] = 61)

\* a revision token with nothing before its first "===" and something after
CommitWithoutRev(t) ==
  HasPrefix(t, <<61, 61, 61>>) /\ Len(t) > 3

\* the parts of a "DeltaHeadRev" before and after its first ":"
BeforeColon(t) == SubSeq(t, 1, CHOOSE i \in 1..Len(t) : t[i] = 58 /\ \A j \in 1..(i - 1) : t[j] # 58)

(***************************************************************************)
(* C13: a malformed input gives a returned error: ParseRepoSpec of the     *)
(* empty token and of "R$" with text after it that is not a decimal        *)
(* integer; UnmarshalDeltaSpec of a "DeltaHeadRev" whose part before the   *)
(* first ":" is not base64url text; UnmarshalRepoRevSpec of a "Rev", and   *)
(* UnmarshalDeltaSpec of a "Rev" or of the revision part of a              *)
(* "DeltaHeadRev", with nothing before "===" and something after it.       *)
(***************************************************************************)
C13_MalformedGivesError ==
  LET rev == Get(routeMap, "Rev")
      dhr == Get(routeMap, "DeltaHeadRev")
      cross == Count(dhr, 58) > 0
      before == IF cross THEN Len(BeforeColon(dhr)) - 1 ELSE 0
      headRev == IF cross THEN SubSeq(dhr, before + 2, Len(dhr)) ELSE dhr
  IN /\ (Requested("ParseRepoSpec") /\ component = <<>>)
          => res.err # "" /\ panic = ""
     /\ (Requested("ParseRepoSpec") /\ HasPrefix(component, RIDPrefix)
           /\ ~IsDecimalInteger(SubSeq(component, 3, Len(component))))
          => res.err # "" /\ panic = ""
     /\ (Requested("UnmarshalDeltaSpec") /\ cross /\ ~IsBase64URL(SubSeq(dhr, 1, before)))
          => res.err # "" /\ panic = ""
     /\ (Requested("UnmarshalRepoRevSpec") /\ CommitWithoutRev(rev))
          => res.err # "" /\ panic = ""
     /\ (Requested("UnmarshalDeltaSpec") /\ (CommitWithoutRev(rev) \/ CommitWithoutRev(headRev)))
          => res.err # "" /\ panic = ""

C13_Witness ==
  /\ Requested("UnmarshalDeltaSpec")
  /\ UnmarshalRepoRevSpec(routeMap).err = ""
  /\ Count(Get(routeMap, "DeltaHeadRev"), 58) = 1
  /\ Len(Get(routeMap, "DeltaHeadRev")) > 4
  /\ res.err = "illegal base64 data"

(***************************************************************************)
(* C14: ParseRepoSpec, UnmarshalRepoSpec, UnmarshalRepoRevSpec and         *)
(* UnmarshalDeltaSpec never panic, whatever the token or the map: they     *)
(* return a value or an error.                                             *)
(***************************************************************************)
C14_DecodersNeverPanic ==
  pc = "decoded" => panic = "" /\ res.panic = ""

C14_Witness ==
  /\ Requested("UnmarshalDeltaSpec")
  /\ Get(routeMap, "RepoSpec") = RIDPrefix \o <<49>>
  /\ Get(routeMap, "Rev") = <<61, 61, 61>>
  /\ Get(routeMap, "DeltaHeadRev") = <<58>>
  /\ panic = ""
  /\ res.err # ""

(***************************************************************************)
(* C17: a RepoSpec that ParseRepoSpec returns without an error has         *)
(* RID > 0 or a non-empty URI, and PathComponent does not panic on it.     *)
(***************************************************************************)
C17_ParsedIsValid ==
  (Requested("ParseRepoSpec") /\ res.err = "" /\ res.panic = "")
    => /\ res.val.RID > 0 \/ res.val.URI # <<>>
       /\ PathComponent(res.val).panic = ""

(***************************************************************************)
(* C18: a RepoRevSpec that UnmarshalRepoRevSpec returns without an error,  *)
(* and the Base and the Head of a DeltaSpec that UnmarshalDeltaSpec        *)
(* returns without an error, have a non-empty Rev when the CommitID is not *)
(* empty.                                                                  *)
(***************************************************************************)
C18_CommitIDImpliesRev ==
  LET ok(v) == v.CommitID # <<>> => v.Rev # <<>>
  IN (pc = "decoded" /\ res.err = "" /\ res.panic = "")
       => /\ dfn = "UnmarshalRepoRevSpec" => ok(res.val)
          /\ dfn = "UnmarshalDeltaSpec" => ok(res.val.Base) /\ ok(res.val.Head)

C18_Witness ==
  /\ Requested("UnmarshalDeltaSpec")
  /\ res.err = ""
  /\ res.val.Base.CommitID # <<>>
  /\ res.val.Head.CommitID # <<>>
  /\ res.val.Head.RepoSpec # res.val.Base.RepoSpec

(***************************************************************************)
(* C20: UnmarshalRepoRevSpec splits "Rev" at its first "===": without one  *)
(* the Rev is the whole text and the CommitID is empty; with one the Rev   *)
(* is the text before the first and the CommitID all the text after it,    *)
(* later "===" included (and when that Rev is empty and that CommitID is   *)
(* not, the error of C13 is returned instead).                             *)
(***************************************************************************)
C20_SplitAtFirstSep ==
  (pc = "decoded" /\ dfn = "UnmarshalRepoRevSpec"
     /\ ParseRepoSpec(Get(routeMap, "RepoSpec")).err = "")
    => LET revStr == Get(routeMap, "Rev")
           occ == {k \in 0..(Len(revStr) - 3) : SubSeq(revStr, k + 1, k + 3) = <<61, 61, 61>>}
       IN IF occ = {}
          THEN res.err = "" /\ res.val.Rev = revStr /\ res.val.CommitID = <<>>
          ELSE LET k == CHOOSE x \in occ : \A y \in occ : x <= y
                   before == SubSeq(revStr, 1, k)
                   after == SubSeq(revStr, k + 4, Len(revStr))
               IN IF before = <<>> /\ after # <<>>
                  THEN res.err # ""
                  ELSE res.err = "" /\ res.val.Rev = before /\ res.val.CommitID = after

C20_Witness ==
  /\ Requested("UnmarshalRepoRevSpec")
  /\ res.err = ""
  /\ res.val.Rev # <<>>
  /\ Index(res.val.CommitID, repoRevSpecCommitSep) # -1

(***************************************************************************)
(* C19: the base64url text of a repository token holds no ":", so the      *)
(* first ":" of a cross-repository "DeltaHeadRev" built from the           *)
(* repository token p and the revision token v stands right after that     *)
(* text, and UnmarshalDeltaSpec decodes the head from exactly p and v, as  *)
(* UnmarshalRepoRevSpec reads them, also when v holds more ":".            *)
(***************************************************************************)
C19_FirstColonIsBoundary ==
  (Decoded("DeltaSpec.RouteVars", "UnmarshalDeltaSpec")
     /\ arg.Base.RepoSpec # arg.Head.RepoSpec
     /\ UnmarshalRepoRevSpec(routeMap).err = "")
    => LET p == PathComponent(arg.Head.RepoSpec).val
           v == RevToken(arg.Head)
           dhr == routeMap["DeltaHeadRev"]
           head == UnmarshalRepoRevSpec(("RepoSpec" :> p) @@ ("Rev" :> v))
       IN /\ \A k \in 1..Len(EncodeToString(p)) : EncodeToString(p)[k] # 58
          /\ Index(dhr, Colon) = Len(EncodeToString(p))
          /\ res.err = head.err
          /\ head.err = "" => res.val.Head = head.val

C19_Witness ==
  /\ Decoded("DeltaSpec.RouteVars", "UnmarshalDeltaSpec")
  /\ arg.Base.RepoSpec # arg.Head.RepoSpec
  /\ Count(arg.Head.Rev, 58) > 0
  /\ Count(arg.Head.RepoSpec.URI, 58) > 0
  /\ res.err = ""
  /\ res.val.Head = arg.Head

(***************************************************************************)
(* C15: of Added, Changed and Deleted of a DefDelta at most one is true:   *)
(* Added when only the Head is there, Changed when both are, Deleted when  *)
(* only the Base is; when neither is there all three are false, and none   *)
(* of the three fails.                                                     *)
(***************************************************************************)
C15_AtMostOneState ==
  pc = "called"
    => LET is(name) == name \in DOMAIN res.val /\ res.val[name]
           called(name) == name \in DOMAIN res.val
           base == arg.Base # "nil"
           head == arg.Head # "nil"
       IN /\ Cardinality({name \in {"Added", "Changed", "Deleted"} : is(name)}) <= 1
          /\ called("Added") => (is("Added") <=> (~base /\ head))
          /\ called("Changed") => (is("Changed") <=> (base /\ head))
          /\ called("Deleted") => (is("Deleted") <=> (base /\ ~head))
          /\ (~base /\ ~head) => \A name \in DOMAIN res.val : ~res.val[name]
          /\ panic = "" /\ res.err = "" /\ res.panic = ""

C15_Witness ==
  /\ pc = "called"
  /\ DOMAIN res.val = {"Added", "Changed", "Deleted"}
  /\ arg.Base = "nil"
  /\ arg.Head = "nil"
  /\ \A name \in DOMAIN res.val : ~res.val[name]

(***************************************************************************)
(* C16: with several threads calling the RouteVars methods and the         *)
(* decoders at once, each on an argument of its own, every call gives what *)
(* it gives when run alone, in every interleaving: each RouteVars call     *)
(* works on a map of its own, which no other call reads or writes.         *)
(***************************************************************************)
C16_SameAsAlone ==
  LET alone(f, a) ==
        IF f = "RepoSpec.RouteVars" THEN RepoSpecRouteVars(a)
        ELSE IF f = "RepoRevSpec.RouteVars" THEN RepoRevSpecRouteVars(a)
        ELSE IF f = "DeltaSpec.RouteVars" THEN DeltaSpecRouteVars(a)
        ELSE IF f = "UnmarshalRepoSpec" THEN UnmarshalRepoSpec(a)
        ELSE IF f = "UnmarshalRepoRevSpec" THEN UnmarshalRepoRevSpec(a)
        ELSE UnmarshalDeltaSpec(a)
  IN /\ \A t \in Threads :
          threads[t].pc = "done" => threads[t].res = alone(threads[t].fn, threads[t].arg)
     /\ \A t \in Threads : \A u \in Threads \ {t} :
          threads[t].m # 0 => threads[t].m # threads[u].m

C16_Witness ==
  /\ threads[1].pc = "done"
  /\ threads[1].fn = "DeltaSpec.RouteVars"
  /\ threads[1].m = 2
  /\ threads[2].fn = "DeltaSpec.RouteVars"
  /\ threads[2].m = 1
  /\ threads[2].pc = "putDeltaHeadRev"
  /\ threads[1].arg # threads[2].arg
  /\ threads[1].res.panic = ""

(***************************************************************************)
(* More vocabulary: the number a decimal text stands for.                  *)
(***************************************************************************)
\* the digits of the decimal integer s, without sign and leading "0"s
Magnitude(s) ==
  StripZeros(IF Len(s) > 0 /\ s[1] \in {43, 45} THEN SubSeq(s, 2, Len(s)) ELSE s)

\* the decimal integer s is that of an int
FitsInt(s) ==
  LET d == Magnitude(s)
      limit == IF s[1] = 45 THEN <<50, 49, 52, 55, 52, 56, 51, 54, 52, 56>>
               ELSE <<50, 49, 52, 55, 52, 56, 51, 54, 52, 55>>
  IN \/ Len(d) < 10
     \/ Len(d) = 10 /\ ~\E i \in 1..10 : d[i] > limit[i] /\ \A j \in 1..(i - 1) : d[j] = limit[j]

\* the decimal integer s, which fits an int, stands for n
Denotes(s, n) ==
  LET d == Magnitude(s)
  IN IF d = <<>> THEN n = 0
     ELSE IF s[1] # 45 THEN n > 0 /\ Digits(n) = d
     ELSE IF n < -2147483647 THEN d = <<50, 49, 52, 55, 52, 56, 51, 54, 52, 56>>
     ELSE n < 0 /\ Digits(0 - n) = d

(***************************************************************************)
(* C21, as claimed: ParseRepoSpec of a non-empty token that does not start *)
(* with "R$" returns, without an error, RID 0 and the URI                  *)
(* "sourcegraph.com/" + token when the token starts with "sourcegraph/"    *)
(* and the token otherwise; of "R$" and a decimal n it returns RID n and   *)
(* an empty URI.                                                           *)
(***************************************************************************)
C21_ParseRepoSpecValue ==
  Requested("ParseRepoSpec")
    => LET digits == SubSeq(component, 3, Len(component))
       IN /\ (component # <<>> /\ ~HasPrefix(component, RIDPrefix))
               => /\ res.err = "" /\ res.panic = ""
                  /\ res.val.RID = 0
                  /\ res.val.URI = IF HasPrefix(component, SourcegraphSlash)
                                   THEN SourcegraphCom \o component ELSE component
          /\ (HasPrefix(component, RIDPrefix) /\ IsDecimalInteger(digits))
               => /\ res.err = "" /\ res.panic = ""
                  /\ res.val.URI = <<>>
                  /\ Denotes(digits, res.val.RID)

(***************************************************************************)
(* C21, amended: the same, for "R$" and a decimal n that fits an int; of   *)
(* "R$" and a decimal that does not fit an int ParseRepoSpec returns an    *)
(* error.                                                                  *)
(***************************************************************************)
C21_ParseRepoSpecValueOfInt ==
  Requested("ParseRepoSpec")
    => LET digits == SubSeq(component, 3, Len(component))
       IN /\ (component # <<>> /\ ~HasPrefix(component, RIDPrefix))
               => /\ res.err = "" /\ res.panic = ""
                  /\ res.val.RID = 0
                  /\ res.val.URI = IF HasPrefix(component, SourcegraphSlash)
                                   THEN SourcegraphCom \o component ELSE component
          /\ (HasPrefix(component, RIDPrefix) /\ IsDecimalInteger(digits) /\ FitsInt(digits))
               => /\ res.err = "" /\ res.panic = ""
                  /\ res.val.URI = <<>>
                  /\ Denotes(digits, res.val.RID)
          /\ (HasPrefix(component, RIDPrefix) /\ IsDecimalInteger(digits) /\ ~FitsInt(digits))
               => res.err # "" /\ res.panic = ""

C21_Witness ==
  /\ Requested("ParseRepoSpec")
  /\ component = <<82, 36, 45, 50, 49, 52, 55, 52, 56, 51, 54, 52, 56>>
  /\ res.err = ""
  /\ res.val.RID < -2147483647

(***************************************************************************)
(* C22: when UnmarshalDeltaSpec succeeds and "DeltaHeadRev" (missing,      *)
(* empty or not) has no ":", the decoded Head.RepoSpec is the decoded      *)
(* Base.RepoSpec and Head's Rev and CommitID are the two sides of the      *)
(* first "===" of the whole "DeltaHeadRev" (Rev all of it when there is    *)
(* none); when it has a ":", Head.RepoSpec is what ParseRepoSpec makes of  *)
(* the bytes the base64url text before the first ":" stands for, whatever  *)
(* the "RepoSpec" key holds.                                               *)
(***************************************************************************)
C22_HeadRepoSpecSource ==
  (pc = "decoded" /\ dfn = "UnmarshalDeltaSpec" /\ res.err = "" /\ res.panic = "")
    => LET dhr == Get(routeMap, "DeltaHeadRev")
           head == res.val.Head
           repoText == SubSeq(dhr, 1, Index(dhr, Colon))
       IN IF \A k \in 1..Len(dhr) : dhr[k] # 58
          THEN /\ head.RepoSpec = res.val.Base.RepoSpec
               /\ IF Index(dhr, repoRevSpecCommitSep) = -1
                  THEN head.Rev = dhr /\ head.CommitID = <<>>
                  ELSE /\ dhr = head.Rev \o repoRevSpecCommitSep \o head.CommitID
                       /\ Index(dhr, repoRevSpecCommitSep) = Len(head.Rev)
          ELSE /\ DecodeString(repoText).err = ""
               /\ ParseRepoSpec(DecodeString(repoText).val) = Value(head.RepoSpec)
               /\ \A other \in FewPathInputs :
                    LET alt == UnmarshalDeltaSpec(Put(routeMap, "RepoSpec", other))
                    IN (alt.err = "" /\ alt.panic = "") => alt.val.Head = head

C22_Witness ==
  /\ Requested("UnmarshalDeltaSpec")
  /\ res.err = ""
  /\ "DeltaHeadRev" \in DOMAIN routeMap
  /\ \E k \in 1..Len(routeMap["DeltaHeadRev"]) : routeMap["DeltaHeadRev"][k] = 58
  /\ res.val.Head.RepoSpec # res.val.Base.RepoSpec
  /\ res.val.Head.CommitID # <<>>

(***************************************************************************)
(* C23: a decoder that returns an error returns no part of a result, and   *)
(* no call changes what it is given.  In every state where                 *)
(* UnmarshalRepoRevSpec or UnmarshalDeltaSpec has returned an error the    *)
(* value returned is the zero value, also when the base of a DeltaSpec     *)
(* was decoded and only the head failed; and the step of a decoder called  *)
(* on what an encoder returned leaves the map (or the token) it is given,  *)
(* and the spec the encoder was called on, as they were.                   *)
(***************************************************************************)
C23_ZeroOnError ==
  (pc = "decoded" /\ res.err # "")
    => LET zero == [RepoSpec |-> [URI |-> <<>>, RID |-> 0], Rev |-> <<>>, CommitID |-> <<>>]
       IN /\ dfn = "UnmarshalRepoRevSpec" => res.val = zero
          /\ dfn = "UnmarshalDeltaSpec" => res.val = [Base |-> zero, Head |-> zero]

C23_InputsUnchanged ==
  (pc = "encoded" /\ pc' = "decoded")
    => /\ routeMap' = routeMap
       /\ component' = component
       /\ arg' = arg
       /\ fn' = fn

C24_TokensCanonical ==
  (Requested("ParseRepoSpec") /\ res.err = "" /\ res.panic = "" /\ ValidRepoSpec(res.val))
    => /\ PathComponent(res.val) = Returned(component)
       /\ HasPrefix(component, SourcegraphSlash)
            => /\ HasPrefix(res.val.URI, SourcegraphCom \o SourcegraphSlash)
               /\ PathComponent(res.val).val = component

====
